---------------------------- MODULE Spec2Model ----------------------------
(***************************************************************************)
(* The surcharging ROI calculator page: src/script.js (the later variant,  *)
(* "formula") and src/unnamed/part_000 (the earlier variant, "flatRate").  *)
(*                                                                         *)
(* Numbers.  A JavaScript Number is modelled as an exact rational          *)
(* [n |-> numerator, d |-> denominator] in lowest terms with d > 0, and    *)
(* NaN as the record with d = 0.  The binary rounding of IEEE-754 doubles  *)
(* (145.64999999999998 for 145.65) is not modelled: every statement about  *)
(* a computed amount below is a statement in exact arithmetic.  Negative   *)
(* zero, Infinity and exponent notation do not occur for the inputs drawn. *)
(*                                                                         *)
(* Strings.  The text of an input field or of an element is a sequence of  *)
(* one-character strings, so that parsing and formatting are computed.     *)
(* An input holds whatever text it is given, as a text input does.         *)
(*                                                                         *)
(* Specifications.  Spec is the page: every handler and every timer.       *)
(* SpecForm is the form's handlers over a wider choice of texts, and       *)
(* SpecCore is one calculation over a wider choice of numbers.  SpecRepeat  *)
(* is script.js calculating while earlier animations are still running.    *)
(***************************************************************************)
EXTENDS Integers, Sequences, FiniteSets

(***************************************************************************)
(* Rational arithmetic                                                     *)
(***************************************************************************)
Abs(x) == IF x < 0 THEN 0 - x ELSE x

RECURSIVE GCD(_, _)
GCD(a, b) == IF b = 0 THEN a ELSE GCD(b, a % b)

NaN == [n |-> 0, d |-> 0]

IsNaN(a) == a.d = 0

Rat(n, d) ==
    IF d = 0 THEN NaN
    ELSE LET g == GCD(Abs(n), Abs(d))
             s == IF d < 0 THEN 0 - 1 ELSE 1
         IN  [n |-> s * (n \div g), d |-> s * (d \div g)]

Num(k) == [n |-> k, d |-> 1]

Zero == Num(0)

RAdd(a, b) ==
    IF IsNaN(a) \/ IsNaN(b) THEN NaN
    ELSE LET g == GCD(a.d, b.d)
         IN  Rat(a.n * (b.d \div g) + b.n * (a.d \div g), (a.d \div g) * b.d)

RNeg(a) == [n |-> 0 - a.n, d |-> a.d]

RSub(a, b) == RAdd(a, RNeg(b))

RMul(a, b) ==
    IF IsNaN(a) \/ IsNaN(b) THEN NaN
    ELSE LET g1 == GCD(Abs(a.n), b.d)
             g2 == GCD(Abs(b.n), a.d)
         IN  [n |-> (a.n \div g1) * (b.n \div g2),
              d |-> (a.d \div g2) * (b.d \div g1)]

\* a / b for b a positive rational (the only divisors of the code: 100 and
\* duration / 16)
RDiv(a, b) ==
    IF IsNaN(a) \/ IsNaN(b) \/ b.n <= 0 THEN NaN
    ELSE RMul(a, [n |-> b.d, d |-> b.n])

\* the comparisons of JavaScript: every comparison with NaN is false
RLt(a, b) == ~IsNaN(a) /\ ~IsNaN(b) /\ RSub(a, b).n < 0

RLe(a, b) == ~IsNaN(a) /\ ~IsNaN(b) /\ RSub(a, b).n <= 0

RGt(a, b) == RLt(b, a)

RGe(a, b) == RLe(b, a)

\* x || 0 : NaN and 0 are falsy
OrZero(a) == IF IsNaN(a) \/ a.n = 0 THEN Zero ELSE a

RECURSIVE Pow10(_)
Pow10(k) == IF k = 0 THEN 1 ELSE 10 * Pow10(k - 1)

\* |a| rounded to k decimals, half away from zero, as an integer count of
\* 10^-k units (the default rounding of Intl.NumberFormat)
RoundUnits(a, k) ==
    (Abs(a.n) \div a.d) * Pow10(k)
      + (2 * (Abs(a.n) % a.d) * Pow10(k) + a.d) \div (2 * a.d)

(***************************************************************************)
(* Strings                                                                 *)
(***************************************************************************)
DigitChars == <<"0", "1", "2", "3", "4", "5", "6", "7", "8", "9">>

IsDigit(c) == \E i \in 1..10 : DigitChars[i] = c

DigitVal(c) == (CHOOSE i \in 1..10 : DigitChars[i] = c) - 1

LowerChars ==
    <<"a", "b", "c", "d", "e", "f", "g", "h", "i", "j", "k", "l", "m",
      "n", "o", "p", "q", "r", "s", "t", "u", "v", "w", "x", "y", "z">>

UpperChars ==
    <<"A", "B", "C", "D", "E", "F", "G", "H", "I", "J", "K", "L", "M",
      "N", "O", "P", "Q", "R", "S", "T", "U", "V", "W", "X", "Y", "Z">>

ToLower(c) ==
    IF \E i \in 1..26 : UpperChars[i] = c
    THEN LowerChars[CHOOSE i \in 1..26 : UpperChars[i] = c]
    ELSE c

ToUpper(c) ==
    IF \E i \in 1..26 : LowerChars[i] = c
    THEN UpperChars[CHOOSE i \in 1..26 : LowerChars[i] = c]
    ELSE c

\* s.replace(/,/g, '')
StripCommas(s) == SelectSeq(s, LAMBDA c : c # ",")

\* s.replace(/[^0-9.]/g, '')
StripNonNumeric(s) == SelectSeq(s, LAMBDA c : IsDigit(c) \/ c = ".")

\* the number of digits of s from position i on
RECURSIVE DigitRun(_, _)
DigitRun(s, i) ==
    IF i <= Len(s) /\ IsDigit(s[i]) THEN 1 + DigitRun(s, i + 1) ELSE 0

\* the value of the k digits of s from position i on
RECURSIVE DigitsValue(_, _, _)
DigitsValue(s, i, k) ==
    IF k = 0 THEN 0
    ELSE 10 * DigitsValue(s, i, k - 1) + DigitVal(s[i + k - 1])

RECURSIVE SkipSpaces(_, _)
SkipSpaces(s, i) ==
    IF i <= Len(s) /\ s[i] = " " THEN SkipSpaces(s, i + 1) ELSE i

\* parseFloat: leading white space, an optional sign, then the longest
\* prefix digits [. digits] or . digits; NaN when there is none
ParseFloat(s) ==
    LET i0   == SkipSpaces(s, 1)
        sgn  == IF i0 <= Len(s) /\ s[i0] = "-" THEN 0 - 1 ELSE 1
        i1   == IF i0 <= Len(s) /\ s[i0] \in {"-", "+"} THEN i0 + 1 ELSE i0
        ni   == DigitRun(s, i1)
        dot  == i1 + ni <= Len(s) /\ s[i1 + ni] = "."
        nf   == IF dot THEN DigitRun(s, i1 + ni + 1) ELSE 0
    IN  IF ni = 0 /\ nf = 0 THEN NaN
        ELSE Rat(sgn * (DigitsValue(s, i1, ni) * Pow10(nf)
                          + DigitsValue(s, i1 + ni + 1, nf)),
                 Pow10(nf))

\* the decimal digits of the natural number k
RECURSIVE NatDigits(_)
NatDigits(k) ==
    IF k < 10 THEN <<DigitChars[k + 1]>>
    ELSE Append(NatDigits(k \div 10), DigitChars[(k % 10) + 1])

\* exactly w digits of k, zero-padded on the left
RECURSIVE FixedDigits(_, _)
FixedDigits(k, w) ==
    IF w = 0 THEN <<>>
    ELSE Append(FixedDigits(k \div 10, w - 1), DigitChars[(k % 10) + 1])

\* a digit string with a comma before every group of three digits
RECURSIVE Grouped(_)
Grouped(ds) ==
    IF Len(ds) <= 3 THEN ds
    ELSE Grouped(SubSeq(ds, 1, Len(ds) - 3)) \o <<",">>
           \o SubSeq(ds, Len(ds) - 2, Len(ds))

RECURSIVE StripTrailingZeros(_)
StripTrailingZeros(ds) ==
    IF Len(ds) > 0 /\ ds[Len(ds)] = "0"
    THEN StripTrailingZeros(SubSeq(ds, 1, Len(ds) - 1))
    ELSE ds

NaNText == <<"N", "a", "N">>

\* the least k with d dividing 10^k (d a divisor of a power of ten)
RECURSIVE DecimalPlaces(_, _)
DecimalPlaces(d, k) ==
    IF Pow10(k) % d = 0 THEN k ELSE DecimalPlaces(d, k + 1)

\* Number::toString of a finite decimal: what input.value = value stores
NumberToString(a) ==
    IF IsNaN(a) THEN NaNText
    ELSE LET k     == DecimalPlaces(a.d, 0)
             units == Abs(a.n) * (Pow10(k) \div a.d)
             ip    == NatDigits(units \div Pow10(k))
             fp    == FixedDigits(units % Pow10(k), k)
         IN  (IF a.n < 0 THEN <<"-">> ELSE <<>>) \o ip
               \o (IF k = 0 THEN <<>> ELSE <<".">> \o fp)

\* value.toLocaleString('en-US'): grouping, at most three fraction digits
ToLocaleString(a) ==
    IF IsNaN(a) THEN NaNText
    ELSE LET units == RoundUnits(a, 3)
             ip    == Grouped(NatDigits(units \div 1000))
             fp    == StripTrailingZeros(FixedDigits(units % 1000, 3))
         IN  (IF a.n < 0 THEN <<"-">> ELSE <<>>) \o ip
               \o (IF fp = <<>> THEN <<>> ELSE <<".">> \o fp)

\* Intl.NumberFormat('en-US', {style: 'currency', currency: 'USD',
\* minimumFractionDigits: 2, maximumFractionDigits: 2}).format(amount)
formatCurrency(amount) ==
    IF IsNaN(amount) THEN <<"$">> \o NaNText
    ELSE LET cents == RoundUnits(amount, 2)
         IN  (IF amount.n < 0 THEN <<"-">> ELSE <<>>) \o <<"$">>
               \o Grouped(NatDigits(cents \div 100)) \o <<".">>
               \o FixedDigits(cents % 100, 2)

(***************************************************************************)
(* The page                                                                *)
(***************************************************************************)
\* the five inputs of the form
FieldIds ==
    {"monthlyVolume", "creditCardPercentage", "competitorRate",
     "competitorSaas", "diCost"}

\* the elements updateResults writes
ResultIds ==
    {"compSaas", "compProcessing", "compTotal", "diSaas", "diProcessing",
     "diTotal", "monthlySavings", "annualSavings"}

\* the elements prefillFromURLParams personalises
LabelIds ==
    {"competitorName", "practiceNameTitle", "practiceNameDetails",
     "practiceNameMonthlySavings", "practiceNameAnnualSavings"}

ParamNames ==
    {"volume", "cc_percent", "comp_rate", "comp_cost", "di_cost",
     "competitor", "practice"}

paramMap ==
    [volume |-> "monthlyVolume", cc_percent |-> "creditCardPercentage",
     comp_rate |-> "competitorRate", comp_cost |-> "competitorSaas",
     di_cost |-> "diCost"]

monetaryFields == {"monthlyVolume", "competitorSaas", "diCost"}

percentageInputs == {"creditCardPercentage", "competitorRate"}

Variants == {"formula", "flatRate"}

\* urlParams.get(p) of a parameter the query string does not have
Null == <<"null">>

\* the text an element has from the page markup, before any script wrote it
Markup == <<"markup">>

VARIABLES
    variant,           \* which script the page runs
    loaded,            \* DOMContentLoaded has been handled
    value,             \* input.value of each field
    placeholder,       \* input.placeholder of each field
    label,             \* textContent of the personalised elements
    text,              \* textContent of the result elements
    sectionDisplay,    \* resultsSection.style.display
    timers,            \* the live setInterval timers, in firing order
    scrollPending,     \* setTimeout(scrollIntoView, 100) calls not yet run
    calculateTimeout,  \* the debounce timeout is pending
    outcome,           \* what the last call of calculateROI did
    args,              \* the five numbers the last call parsed
    data               \* the record last handed to updateResults

vars ==
    <<variant, loaded, value, placeholder, label, text, sectionDisplay,
      timers, scrollPending, calculateTimeout, outcome, args, data>>

(***************************************************************************)
(* prefillFromURLParams                                                    *)
(***************************************************************************)
\* competitorName.toLowerCase().split(' ').map(capitalise).join(' ')
TitleCase(s) ==
    [i \in 1..Len(s) |->
        IF i = 1 \/ s[i - 1] = " " THEN ToUpper(ToLower(s[i]))
        ELSE ToLower(s[i])]

makePossessive(name) ==
    IF name[Len(name)] = "s" THEN name \o <<"'">> ELSE name \o <<"'", "s">>

\* the value a field has after the forEach over paramMap
PrefilledValue(v, url, id) ==
    LET param == CHOOSE p \in DOMAIN paramMap : paramMap[p] = id
    IN  IF v = "formula" /\ id \in monetaryFields
        THEN ToLocaleString(ParseFloat(StripCommas(url[param])))
        ELSE url[param]

PrefilledFields(v, url, old) ==
    [id \in FieldIds |->
        LET param == CHOOSE p \in DOMAIN paramMap : paramMap[p] = id
        IN  IF url[param] = Null THEN old[id]
            ELSE PrefilledValue(v, url, id)]

PrefilledLabels(url, old) ==
    [id \in LabelIds |->
        IF id = "competitorName"
        THEN IF url.competitor \in {Null, <<>>} THEN old[id]
             ELSE TitleCase(url.competitor)
        ELSE IF url.practice \in {Null, <<>>} THEN old[id]
        ELSE IF id = "practiceNameDetails" THEN makePossessive(url.practice)
        ELSE url.practice]

(***************************************************************************)
(* calculateROI                                                            *)
(***************************************************************************)
\* input.value || input.placeholder
ValueOr(val, ph, id) == IF val[id] # <<>> THEN val[id] ELSE ph[id]

\* the five numbers calculateROI reads from the form
ParsedArgs(v, val, ph) ==
    IF v = "formula"
    THEN [monthlyVolume |->
              OrZero(ParseFloat(StripCommas(ValueOr(val, ph, "monthlyVolume")))),
          creditCardPercentage |->
              OrZero(ParseFloat(StripCommas(
                  ValueOr(val, ph, "creditCardPercentage")))),
          competitorRate |->
              OrZero(ParseFloat(StripCommas(ValueOr(val, ph, "competitorRate")))),
          competitorSaas |->
              OrZero(ParseFloat(StripNonNumeric(
                  ValueOr(val, ph, "competitorSaas")))),
          diCost |-> OrZero(ParseFloat(StripCommas(ValueOr(val, ph, "diCost"))))]
    ELSE [monthlyVolume |-> OrZero(ParseFloat(ValueOr(val, ph, "monthlyVolume"))),
          creditCardPercentage |->
              OrZero(ParseFloat(ValueOr(val, ph, "creditCardPercentage"))),
          competitorRate |->
              OrZero(ParseFloat(ValueOr(val, ph, "competitorRate"))),
          competitorSaas |->
              OrZero(ParseFloat(
                  IF val["competitorSaas"] # <<>> THEN val["competitorSaas"]
                  ELSE StripNonNumeric(ph["competitorSaas"]))),
          diCost |-> OrZero(ParseFloat(ValueOr(val, ph, "diCost")))]

\* baseProcessingRate with two digits transposed
baseProcessingRate_Transposed == Rat(2193, 100000)

baseProcessingRate == Rat(2913, 100000)

surchargeRate == Rat(3, 100)

DI_SURCHARGE_RATE == Rat(139, 100)

DI_SURCHARGE_RATE_DECIMAL == RDiv(DI_SURCHARGE_RATE, Num(100))

\* ComputeFormula with a slip: the two terms of the formula are swapped
ComputeFormula_FeesReversed(a) ==
    LET creditCardVolume ==
            RMul(a.monthlyVolume, RDiv(a.creditCardPercentage, Num(100)))
        competitorRateDecimal == RDiv(a.competitorRate, Num(100))
        competitorProcessingCost == RMul(a.monthlyVolume, competitorRateDecimal)
        competitorTotalCost == RAdd(a.competitorSaas, competitorProcessingCost)
        surchargeCollected == RMul(creditCardVolume, surchargeRate)
        feesWithSurcharging ==
            RSub(RMul(RAdd(creditCardVolume, surchargeCollected),
                      baseProcessingRate),
                 RMul(RAdd(a.monthlyVolume, surchargeCollected),
                      baseProcessingRate))
        diProcessingCost == feesWithSurcharging
        diTotalCost == RAdd(a.diCost, diProcessingCost)
        monthlySavings == RSub(competitorTotalCost, diTotalCost)
        annualSavings == RMul(monthlySavings, Num(12))
    IN  [competitorSaas |-> a.competitorSaas,
         competitorProcessing |-> competitorProcessingCost,
         competitorTotal |-> competitorTotalCost,
         diSaas |-> a.diCost,
         diProcessing |-> diProcessingCost,
         diTotal |-> diTotalCost,
         monthlySavings |-> monthlySavings,
         annualSavings |-> annualSavings]

\* ComputeFormula with a slip: the percentage is not divided by 100
ComputeFormula_PercentNotDivided(a) ==
    LET creditCardVolume ==
            RMul(a.monthlyVolume, a.creditCardPercentage)
        competitorRateDecimal == RDiv(a.competitorRate, Num(100))
        competitorProcessingCost == RMul(a.monthlyVolume, competitorRateDecimal)
        competitorTotalCost == RAdd(a.competitorSaas, competitorProcessingCost)
        surchargeCollected == RMul(creditCardVolume, surchargeRate)
        feesWithSurcharging ==
            RSub(RMul(RAdd(a.monthlyVolume, surchargeCollected),
                      baseProcessingRate),
                 RMul(RAdd(creditCardVolume, surchargeCollected),
                      baseProcessingRate))
        diProcessingCost == feesWithSurcharging
        diTotalCost == RAdd(a.diCost, diProcessingCost)
        monthlySavings == RSub(competitorTotalCost, diTotalCost)
        annualSavings == RMul(monthlySavings, Num(12))
    IN  [competitorSaas |-> a.competitorSaas,
         competitorProcessing |-> competitorProcessingCost,
         competitorTotal |-> competitorTotalCost,
         diSaas |-> a.diCost,
         diProcessing |-> diProcessingCost,
         diTotal |-> diTotalCost,
         monthlySavings |-> monthlySavings,
         annualSavings |-> annualSavings]

\* calculateROI of script.js from the validation on: the record it hands
\* to updateResults.  (debitVolume and effectiveRate are computed and never
\* read.)
ComputeFormula(a) ==
    LET creditCardVolume ==
            RMul(a.monthlyVolume, RDiv(a.creditCardPercentage, Num(100)))
        competitorRateDecimal == RDiv(a.competitorRate, Num(100))
        competitorProcessingCost == RMul(a.monthlyVolume, competitorRateDecimal)
        competitorTotalCost == RAdd(a.competitorSaas, competitorProcessingCost)
        surchargeCollected == RMul(creditCardVolume, surchargeRate)
        feesWithSurcharging ==
            RSub(RMul(RAdd(a.monthlyVolume, surchargeCollected),
                      baseProcessingRate),
                 RMul(RAdd(creditCardVolume, surchargeCollected),
                      baseProcessingRate))
        diProcessingCost == feesWithSurcharging
        diTotalCost == RAdd(a.diCost, diProcessingCost)
        monthlySavings == RSub(competitorTotalCost, diTotalCost)
        annualSavings == RMul(monthlySavings, Num(12))
    IN  [competitorSaas |-> a.competitorSaas,
         competitorProcessing |-> competitorProcessingCost,
         competitorTotal |-> competitorTotalCost,
         diSaas |-> a.diCost,
         diProcessing |-> diProcessingCost,
         diTotal |-> diTotalCost,
         monthlySavings |-> monthlySavings,
         annualSavings |-> annualSavings]

\* ComputeFlatRate with a slip: the rate is applied to the credit card volume
ComputeFlatRate_CreditOnly(a) ==
    LET competitorRateDecimal == RDiv(a.competitorRate, Num(100))
        competitorProcessingCost == RMul(a.monthlyVolume, competitorRateDecimal)
        competitorTotalCost == RAdd(a.competitorSaas, competitorProcessingCost)
        diProcessingCost == RMul(RMul(a.monthlyVolume,
                                      RDiv(a.creditCardPercentage, Num(100))),
                                 DI_SURCHARGE_RATE_DECIMAL)
        diTotalCost == RAdd(a.diCost, diProcessingCost)
        monthlySavings == RSub(competitorTotalCost, diTotalCost)
        annualSavings == RMul(monthlySavings, Num(12))
    IN  [competitorSaas |-> a.competitorSaas,
         competitorProcessing |-> competitorProcessingCost,
         competitorTotal |-> competitorTotalCost,
         diSaas |-> a.diCost,
         diProcessing |-> diProcessingCost,
         diTotal |-> diTotalCost,
         monthlySavings |-> monthlySavings,
         annualSavings |-> annualSavings]

\* ComputeFlatRate with a slip: the competitor's total leaves out its fixed cost
ComputeFlatRate_NoSaas(a) ==
    LET competitorRateDecimal == RDiv(a.competitorRate, Num(100))
        competitorProcessingCost == RMul(a.monthlyVolume, competitorRateDecimal)
        competitorTotalCost == competitorProcessingCost
        diProcessingCost == RMul(a.monthlyVolume, DI_SURCHARGE_RATE_DECIMAL)
        diTotalCost == RAdd(a.diCost, diProcessingCost)
        monthlySavings == RSub(competitorTotalCost, diTotalCost)
        annualSavings == RMul(monthlySavings, Num(12))
    IN  [competitorSaas |-> a.competitorSaas,
         competitorProcessing |-> competitorProcessingCost,
         competitorTotal |-> competitorTotalCost,
         diSaas |-> a.diCost,
         diProcessing |-> diProcessingCost,
         diTotal |-> diTotalCost,
         monthlySavings |-> monthlySavings,
         annualSavings |-> annualSavings]

\* ComputeFlatRate with a slip: twelve months of the competitor's cost only
ComputeFlatRate_AnnualFromTotals(a) ==
    LET competitorRateDecimal == RDiv(a.competitorRate, Num(100))
        competitorProcessingCost == RMul(a.monthlyVolume, competitorRateDecimal)
        competitorTotalCost == RAdd(a.competitorSaas, competitorProcessingCost)
        diProcessingCost == RMul(a.monthlyVolume, DI_SURCHARGE_RATE_DECIMAL)
        diTotalCost == RAdd(a.diCost, diProcessingCost)
        monthlySavings == RSub(competitorTotalCost, diTotalCost)
        annualSavings == RSub(RMul(competitorTotalCost, Num(12)), diTotalCost)
    IN  [competitorSaas |-> a.competitorSaas,
         competitorProcessing |-> competitorProcessingCost,
         competitorTotal |-> competitorTotalCost,
         diSaas |-> a.diCost,
         diProcessing |-> diProcessingCost,
         diTotal |-> diTotalCost,
         monthlySavings |-> monthlySavings,
         annualSavings |-> annualSavings]

\* calculateROI of part_000 from the validation on
ComputeFlatRate(a) ==
    LET competitorRateDecimal == RDiv(a.competitorRate, Num(100))
        competitorProcessingCost == RMul(a.monthlyVolume, competitorRateDecimal)
        competitorTotalCost == RAdd(a.competitorSaas, competitorProcessingCost)
        diProcessingCost == RMul(a.monthlyVolume, DI_SURCHARGE_RATE_DECIMAL)
        diTotalCost == RAdd(a.diCost, diProcessingCost)
        monthlySavings == RSub(competitorTotalCost, diTotalCost)
        annualSavings == RMul(monthlySavings, Num(12))
    IN  [competitorSaas |-> a.competitorSaas,
         competitorProcessing |-> competitorProcessingCost,
         competitorTotal |-> competitorTotalCost,
         diSaas |-> a.diCost,
         diProcessing |-> diProcessingCost,
         diTotal |-> diTotalCost,
         monthlySavings |-> monthlySavings,
         annualSavings |-> annualSavings]

Compute(v, a) == IF v = "formula" THEN ComputeFormula(a) ELSE ComputeFlatRate(a)

\* the arguments of the two animateValue calls of updateResults
monthlyDuration == 1000

annualDuration == 1500

tickInterval == 16

\* animateValue(elementId, 0, end, duration): the closure of its timer;
\* ticks counts the callbacks run, up to TicksNeeded(duration)
animateValue(elementId, start, end, duration) ==
    [elementId |-> elementId,
     end |-> end,
     increment |-> RDiv(RSub(end, start), Rat(duration, tickInterval)),
     current |-> start,
     duration |-> duration,
     ticks |-> 0]

\* the text of the result elements when updateResults returns
ResultTexts(d) ==
    [id \in ResultIds |->
        formatCurrency(
            CASE id = "compSaas" -> d.competitorSaas
              [] id = "compProcessing" -> d.competitorProcessing
              [] id = "compTotal" -> d.competitorTotal
              [] id = "diSaas" -> d.diSaas
              [] id = "diProcessing" -> d.diProcessing
              [] id = "diTotal" -> d.diTotal
              [] id = "monthlySavings" -> d.monthlySavings
              [] id = "annualSavings" -> d.annualSavings)]

\* ceil(duration / 16): the ticks after which k * increment has passed end
TicksNeeded(duration) == (duration + tickInterval - 1) \div tickInterval

(***************************************************************************)
(* Bounds and the inputs drawn                                             *)
(***************************************************************************)
\* calculations whose timers may be outstanding at once
MaxPending == 1

T_empty == <<>>
T_0 == <<"0">>
T_3 == <<"3">>
T_50 == <<"5", "0">>
T_100 == <<"1", "0", "0">>
T_150 == <<"1", "5", "0">>
T_neg5 == <<"-", "5">>
T_abc == <<"a", "b", "c">>
T_10000c == <<"1", "0", ",", "0", "0", "0">>
T_usd100 == <<"$", "1", "0", "0">>
T_acme == <<"a", "C", "M", "E", " ", "p", "a", "y">>
T_smiles == <<"S", "m", "i", "l", "e", "s">>

\* the placeholder attributes of the form (the page markup is not part of
\* the scripts): none, or a sample
Placeholders ==
    {[id \in FieldIds |->
        CASE id = "monthlyVolume" -> T_10000c
          [] id = "creditCardPercentage" -> T_50
          [] id = "competitorRate" -> T_3
          [] id = "competitorSaas" -> T_usd100
          [] id = "diCost" -> T_100]}

NoParams == [p \in ParamNames |-> Null]

\* the query strings a page load is tried with
Urls ==
    {NoParams,
     [volume |-> T_10000c, cc_percent |-> T_150, comp_rate |-> T_3,
      comp_cost |-> T_100, di_cost |-> T_100, competitor |-> T_acme,
      practice |-> T_smiles]}

\* the fields the user is taken to edit and leave, and what is typed
TypedText ==
    [creditCardPercentage |-> {T_100},
     competitorRate |-> {T_0}]

\* the input a key is pressed in, and the keys
KeyFields == {"monthlyVolume"}

Keys == {"Enter", "5"}

\* the numbers the calculation is applied to in SpecCore
CoreVolumes ==
    {Num(0 - 5), Zero, Num(1), Num(2500), Num(10000), Num(40000)}

CorePercentages == {Num(0 - 10), Zero, Num(25), Num(50), Num(100), Num(150)}

CoreRates == {Zero, Rat(139, 100), Num(3), Num(100)}

CoreFixedCosts == {Zero, Num(100), Rat(29999, 100)}

\* the same for the form alone (SpecForm, which schedules no interval timer)
FormPlaceholders == Placeholders \cup {[id \in FieldIds |-> <<>>]}

FormUrls ==
    Urls \cup
    {[NoParams EXCEPT !.volume = T_empty, !.cc_percent = T_neg5,
                      !.practice = T_acme]}

FormTypedText ==
    [monthlyVolume |-> {T_abc, T_neg5, T_10000c},
     creditCardPercentage |-> {T_150}]

\* the same for repeated calculations (SpecRepeat): the calculations whose
\* timers may be outstanding at once, a query string whose savings are
\* exactly 0 in script.js, and the competitor rate typed afterwards
MaxOverlap == 2

RepeatUrls ==
    {[NoParams EXCEPT !.volume = T_10000c, !.cc_percent = T_100,
                      !.comp_rate = T_0, !.comp_cost = T_100,
                      !.di_cost = T_100]}

RepeatTypedText == [competitorRate |-> {T_3}]

(***************************************************************************)
(* The handlers                                                            *)
(***************************************************************************)
NoArgs == [id \in FieldIds |-> Zero]

NoData ==
    [f \in {"competitorSaas", "competitorProcessing", "competitorTotal",
             "diSaas", "diProcessing", "diTotal", "monthlySavings",
             "annualSavings"} |-> Zero]

\* the page before DOMContentLoaded, its placeholders among phs
Fresh(phs) ==
    /\ variant \in Variants
    /\ loaded = FALSE
    /\ value = [id \in FieldIds |-> <<>>]
    /\ placeholder \in phs
    /\ label = [id \in LabelIds |-> Markup]
    /\ text = [id \in ResultIds |-> Markup]
    /\ sectionDisplay = "markup"
    /\ timers = <<>>
    /\ scrollPending = 0
    /\ calculateTimeout = FALSE
    /\ outcome = "none"
    /\ args = NoArgs
    /\ data = NoData

Init == Fresh(Placeholders)

InitForm == Fresh(FormPlaceholders)

\* the two DOMContentLoaded listeners: prefillFromURLParams(), then the
\* keypress, blur and input listeners are attached
DOMContentLoaded(url) ==
    /\ ~loaded
    /\ loaded' = TRUE
    /\ value' = PrefilledFields(variant, url, value)
    /\ label' = PrefilledLabels(url, label)
    /\ UNCHANGED <<variant, placeholder, text, sectionDisplay, timers,
                   scrollPending, calculateTimeout, outcome, args, data>>

\* calculateROI with a slip: the validation is monthlyVolume < 0
calculateROI_ZeroAccepted ==
    LET a == ParsedArgs(variant, value, placeholder)
        d == Compute(variant, a)
    IN  /\ args' = a
        /\ IF RLt(a.monthlyVolume, Zero)
           THEN /\ outcome' = "alert"
                /\ UNCHANGED <<data, text, timers, sectionDisplay,
                               scrollPending>>
           ELSE /\ Len(timers) + 2 <= 2 * MaxPending    \* the model's bound
                /\ scrollPending < MaxPending
                /\ outcome' = "result"
                /\ data' = d
                /\ text' = ResultTexts(d)
                /\ timers' = timers \o
                     <<animateValue("monthlySavings", Zero, d.monthlySavings,
                                    monthlyDuration),
                       animateValue("annualSavings", Zero, d.annualSavings,
                                    annualDuration)>>
                /\ sectionDisplay' = "grid"
                /\ scrollPending' = scrollPending + 1

\* calculateROI: what it does to the results, the timers and the record of
\* the call; it writes nothing else.  The model admits an accepted call
\* while fewer than pending earlier ones have timers outstanding.
calculateROIWithin(pending) ==
    LET a == ParsedArgs(variant, value, placeholder)
        d == Compute(variant, a)
    IN  /\ args' = a
        /\ IF RLe(a.monthlyVolume, Zero)
           THEN /\ outcome' = "alert"
                /\ UNCHANGED <<data, text, timers, sectionDisplay,
                               scrollPending>>
           ELSE /\ Len(timers) + 2 <= 2 * pending       \* the model's bound
                /\ scrollPending < pending
                /\ outcome' = "result"
                /\ data' = d
                /\ text' = ResultTexts(d)
                /\ timers' = timers \o
                     <<animateValue("monthlySavings", Zero, d.monthlySavings,
                                    monthlyDuration),
                       animateValue("annualSavings", Zero, d.annualSavings,
                                    annualDuration)>>
                /\ sectionDisplay' = "grid"
                /\ scrollPending' = scrollPending + 1

calculateROI == calculateROIWithin(MaxPending)

\* the keypress listener of an input
KeyPress(id, key) ==
    /\ loaded
    /\ IF key = "Enter"
       THEN /\ calculateROI
            /\ UNCHANGED <<variant, loaded, value, placeholder, label,
                           calculateTimeout>>
       ELSE UNCHANGED vars

\* the Calculate Savings button
Click ==
    /\ loaded
    /\ calculateROI
    /\ UNCHANGED <<variant, loaded, value, placeholder, label,
                   calculateTimeout>>

\* the user edits a field: the input listener is debounceCalculate
Type(id, s) ==
    /\ loaded
    /\ value' = [value EXCEPT ![id] = s]
    /\ calculateTimeout' = TRUE
    /\ UNCHANGED <<variant, loaded, placeholder, label, text, sectionDisplay,
                   timers, scrollPending, outcome, args, data>>

\* DebounceExpire with the commented-out calculateROI() call restored
DebounceExpire_AutoCalculate ==
    /\ calculateTimeout
    /\ calculateTimeout' = FALSE
    /\ calculateROI
    /\ UNCHANGED <<variant, loaded, value, placeholder, label>>

\* the timeout set by debounceCalculate runs: its body is a comment
DebounceExpire ==
    /\ calculateTimeout
    /\ calculateTimeout' = FALSE
    /\ UNCHANGED <<variant, loaded, value, placeholder, label, text,
                   sectionDisplay, timers, scrollPending, outcome, args, data>>

\* the blur listener of a percentage input
ClampPercentage(s) ==
    LET v0 == ParseFloat(s)
        v1 == IF RLt(v0, Zero) THEN Zero ELSE v0
        v2 == IF RGt(v1, Num(100)) THEN Num(100) ELSE v1
    IN  NumberToString(v2)

\* the blur listener of a monetary input
NormaliseMonetary(v, s) ==
    IF v = "formula"
    THEN LET v0 == ParseFloat(StripCommas(s))
             v1 == IF IsNaN(v0) \/ RLt(v0, Zero) THEN Zero ELSE v0
         IN  ToLocaleString(v1)
    ELSE LET v0 == ParseFloat(s)
             v1 == IF RLt(v0, Zero) THEN Zero ELSE v0
         IN  NumberToString(v1)

Blur(id) ==
    /\ loaded
    /\ value' = [value EXCEPT ![id] =
                    IF id \in percentageInputs THEN ClampPercentage(value[id])
                    ELSE NormaliseMonetary(variant, value[id])]
    /\ UNCHANGED <<variant, loaded, placeholder, label, text, sectionDisplay,
                   timers, scrollPending, calculateTimeout, outcome, args,
                   data>>

\* the setTimeout of calculateROI runs: resultsSection.scrollIntoView
ScrollTimer ==
    /\ scrollPending > 0
    /\ scrollPending' = scrollPending - 1
    /\ UNCHANGED <<variant, loaded, value, placeholder, label, text,
                   sectionDisplay, timers, calculateTimeout, outcome, args,
                   data>>

\* the timer's closure after its callback ran once more
Ticked(t) ==
    LET cur  == RAdd(t.current, t.increment)
        done == \/ RGt(t.increment, Zero) /\ RGe(cur, t.end)
                \/ RLt(t.increment, Zero) /\ RLe(cur, t.end)
        n    == IF t.ticks < TicksNeeded(t.duration) THEN t.ticks + 1
                ELSE t.ticks
    IN  [timer |-> [t EXCEPT !.current = IF done THEN t.end ELSE cur,
                             !.ticks = n],
         cleared |-> done]

\* the interval timer due first fires: the setInterval callback of
\* animateValue.  Timers of one interval fire in the order they were set.
Tick ==
    /\ timers # <<>>
    /\ LET r == Ticked(Head(timers))
       IN  /\ text' = [text EXCEPT ![r.timer.elementId] =
                          formatCurrency(r.timer.current)]
           /\ timers' = IF r.cleared THEN Tail(timers)
                        ELSE Append(Tail(timers), r.timer)
    /\ UNCHANGED <<variant, loaded, value, placeholder, label, sectionDisplay,
                   scrollPending, calculateTimeout, outcome, args, data>>

Next ==
    \/ \E url \in Urls : DOMContentLoaded(url)
    \/ \E id \in DOMAIN TypedText : \E s \in TypedText[id] : Type(id, s)
    \/ \E id \in DOMAIN TypedText : Blur(id)
    \/ \E id \in KeyFields : \E key \in Keys : KeyPress(id, key)
    \/ Click
    \/ DebounceExpire
    \/ ScrollTimer
    \/ Tick

\* the page: every handler and every timer
Spec == Init /\ [][Next]_vars

NextForm ==
    \/ \E url \in FormUrls : DOMContentLoaded(url)
    \/ \E id \in DOMAIN FormTypedText :
          \E s \in FormTypedText[id] : Type(id, s)
    \/ \E id \in DOMAIN FormTypedText : Blur(id)
    \/ \E id \in KeyFields : \E key \in Keys : KeyPress(id, key)
    \/ Click
    \/ DebounceExpire
    \/ ScrollTimer

\* the form as the user has filled it in, every field holding a number
InitCore ==
    /\ variant \in Variants
    /\ loaded = TRUE
    /\ \E mv \in CoreVolumes, cc \in CorePercentages, cr \in CoreRates,
          cs \in CoreFixedCosts, di \in CoreFixedCosts :
          value = [id \in FieldIds |->
                     NumberToString(
                        CASE id = "monthlyVolume" -> mv
                          [] id = "creditCardPercentage" -> cc
                          [] id = "competitorRate" -> cr
                          [] id = "competitorSaas" -> cs
                          [] id = "diCost" -> di)]
    /\ placeholder = [id \in FieldIds |-> <<>>]
    /\ label = [id \in LabelIds |-> Markup]
    /\ text = [id \in ResultIds |-> Markup]
    /\ sectionDisplay = "markup"
    /\ timers = <<>>
    /\ scrollPending = 0
    /\ calculateTimeout = FALSE
    /\ outcome = "none"
    /\ args = NoArgs
    /\ data = NoData

NextCore ==
    \/ \E id \in KeyFields : KeyPress(id, "Enter")
    \/ Click

\* the calculation alone: calculateROI applied once to a filled-in form
SpecCore == InitCore /\ [][NextCore]_vars

\* Enter in an input while the timers of an earlier calculation may still
\* be running
PressEnter(id) ==
    /\ loaded
    /\ calculateROIWithin(MaxOverlap)
    /\ UNCHANGED <<variant, loaded, value, placeholder, label,
                   calculateTimeout>>

InitRepeat == Fresh(Placeholders) /\ variant = "formula"

NextRepeat ==
    \/ \E url \in RepeatUrls : DOMContentLoaded(url)
    \/ \E id \in DOMAIN RepeatTypedText :
          \E s \in RepeatTypedText[id] : Type(id, s)
    \/ \E id \in KeyFields : PressEnter(id)
    \/ Tick

\* script.js calculating again: a calculation may be started while the
\* interval timers of the one before are still set.  The scroll timeouts,
\* which write nothing a calculation shows, are left outstanding.
SpecRepeat == InitRepeat /\ [][NextRepeat]_vars

\* the form: the handlers of the user's events over a wider choice of
\* texts; the interval timers a calculation sets are held in timers and
\* not fired
SpecForm == InitForm /\ [][NextForm]_vars

(***************************************************************************)
(* The properties                                                          *)
(***************************************************************************)
\* a step in which calculateROI is called: a click on the button or Enter
\* in an input
CalculationStep == Click \/ \E id \in KeyFields : KeyPress(id, "Enter")

\* what calculateROI and its timers write
Results == <<outcome, args, data, text, sectionDisplay, timers, scrollPending>>

\* C1: a call of calculateROI whose parsed monthlyVolume is <= 0 (an empty
\* or non-numeric field counts as 0) raises the validation message, produces
\* no result record, writes no result element, does not show the results
\* section and starts neither an animation timer nor the scroll timer; in
\* both variants.
C1_InvalidVolumeRejected ==
    [][(/\ CalculationStep
        /\ RLe(ParsedArgs(variant, value, placeholder).monthlyVolume, Zero))
       => /\ outcome' = "alert"
          /\ UNCHANGED <<data, text, sectionDisplay, timers, scrollPending>>]_vars

\* a non-numeric volume was rejected while an earlier result is on display
C1_Witness ==
    /\ outcome = "alert"
    /\ value["monthlyVolume"] = T_abc
    /\ args.monthlyVolume = Zero
    /\ sectionDisplay = "grid"
    /\ text["monthlySavings"] # Markup

ExampleArgs ==
    [monthlyVolume |-> Num(10000), creditCardPercentage |-> Num(50),
     competitorRate |-> Num(3), competitorSaas |-> Num(100),
     diCost |-> Num(100)]

\* C2: in the formula variant every result has ownProcessingCost equal to
\* (monthlyVolume - creditCardVolume) * 0.02913, and the input
\* (10000, 50, 3, 100, 100) gives 145.65, 245.65, 400, 154.35 and 1852.20,
\* displayed as $145.65 and $1,852.20.
C2_FormulaModel ==
    (variant = "formula" /\ outcome = "result") =>
        /\ data.diProcessing =
              RMul(RSub(args.monthlyVolume,
                        RMul(args.monthlyVolume,
                             Rat(args.creditCardPercentage.n,
                                 100 * args.creditCardPercentage.d))),
                   Rat(2913, 100000))
        /\ args = ExampleArgs =>
              /\ data.diProcessing = Rat(14565, 100)
              /\ data.diTotal = Rat(24565, 100)
              /\ data.competitorTotal = Num(400)
              /\ data.monthlySavings = Rat(15435, 100)
              /\ data.annualSavings = Rat(18522, 10)
              /\ text["diProcessing"] = <<"$", "1", "4", "5", ".", "6", "5">>
              /\ text["annualSavings"] =
                    <<"$", "1", ",", "8", "5", "2", ".", "2", "0">>

C2_Witness == variant = "formula" /\ outcome = "result" /\ args = ExampleArgs

\* C3: in the flat-rate variant every result has ownProcessingCost equal to
\* monthlyVolume * 0.0139 whatever creditCardPercentage is, and
\* monthlyVolume 10000 with rate 3 and fixed costs 100 and 100 gives 139.00,
\* 239.00, 161.00 and 1932.00.
C3_FlatRateModel ==
    (variant = "flatRate" /\ outcome = "result") =>
        /\ data.diProcessing = RMul(args.monthlyVolume, Rat(139, 10000))
        /\ \A cc \in CorePercentages :
              ComputeFlatRate([args EXCEPT !.creditCardPercentage = cc]) = data
        /\ (\E cc \in CorePercentages :
               args = [ExampleArgs EXCEPT !.creditCardPercentage = cc]) =>
              /\ data.diProcessing = Num(139)
              /\ data.diTotal = Num(239)
              /\ data.monthlySavings = Num(161)
              /\ data.annualSavings = Num(1932)

C3_Witness ==
    /\ variant = "flatRate"
    /\ outcome = "result"
    /\ args = [ExampleArgs EXCEPT !.creditCardPercentage = Num(25)]
    /\ data.diProcessing = Num(139)

\* C4: on the same five accepted numbers the two variants give the same
\* competitorProcessingCost = monthlyVolume * competitorRate / 100 and the
\* same competitorTotalCost = competitorFixedCost + competitorProcessingCost;
\* each has ownTotalCost = ownFixedCost + ownProcessingCost and
\* monthlySavings = competitorTotalCost - ownTotalCost, so their savings
\* differ by the difference of their ownProcessingCost.
C4_VariantsAgreeOnCompetitor ==
    outcome = "result" =>
        LET f  == ComputeFormula(args)
            g  == ComputeFlatRate(args)
            cp == RMul(args.monthlyVolume,
                       Rat(args.competitorRate.n, 100 * args.competitorRate.d))
        IN  /\ data = IF variant = "formula" THEN f ELSE g
            /\ f.competitorProcessing = cp
            /\ g.competitorProcessing = cp
            /\ f.competitorTotal = RAdd(args.competitorSaas, cp)
            /\ g.competitorTotal = RAdd(args.competitorSaas, cp)
            /\ f.competitorSaas = g.competitorSaas
            /\ f.diSaas = g.diSaas
            /\ f.diTotal = RAdd(args.diCost, f.diProcessing)
            /\ g.diTotal = RAdd(args.diCost, g.diProcessing)
            /\ f.monthlySavings = RSub(f.competitorTotal, f.diTotal)
            /\ g.monthlySavings = RSub(g.competitorTotal, g.diTotal)
            /\ RSub(f.monthlySavings, g.monthlySavings)
                  = RSub(g.diProcessing, f.diProcessing)

\* a result on which the two variants differ
C4_Witness ==
    /\ outcome = "result"
    /\ variant = "flatRate"
    /\ args.competitorSaas # Zero
    /\ ComputeFormula(args).monthlySavings # data.monthlySavings

\* C5: every result handed to updateResults has annualSavings equal to
\* monthlySavings * 12, also when the savings are negative, and the two
\* animations are started towards these two values.
C5_AnnualIsTwelveMonths ==
    outcome = "result" =>
        /\ data.annualSavings = RMul(data.monthlySavings, Num(12))
        /\ Len(timers) >= 2
        /\ timers[Len(timers) - 1].end = data.monthlySavings
        /\ timers[Len(timers)].end = data.annualSavings

C5_Witness ==
    /\ outcome = "result"
    /\ RLt(data.monthlySavings, Zero)
    /\ data.annualSavings = RMul(data.monthlySavings, Num(12))

ValidArgs(a) ==
    /\ RGt(a.monthlyVolume, Zero)
    /\ RGe(a.creditCardPercentage, Zero) /\ RLe(a.creditCardPercentage, Num(100))
    /\ RGe(a.competitorRate, Zero) /\ RLe(a.competitorRate, Num(100))
    /\ RGe(a.competitorSaas, Zero)
    /\ RGe(a.diCost, Zero)

\* C6: for monthlyVolume > 0, creditCardPercentage and competitorRate in
\* [0,100] and both fixed costs >= 0, the result has ownTotalCost >= 0 and
\* competitorTotalCost >= 0, in either variant.
C6_TotalsNonNegative ==
    (outcome = "result" /\ ValidArgs(args)) =>
        /\ RGe(data.diTotal, Zero)
        /\ RGe(data.competitorTotal, Zero)

\* the boundary: a valid input whose own total cost is exactly 0
C6_Witness ==
    /\ outcome = "result"
    /\ variant = "formula"
    /\ ValidArgs(args)
    /\ args.creditCardPercentage = Num(100)
    /\ data.diTotal = Zero

InRange(x) == RGe(x, Zero) /\ RLe(x, Num(100))

\* C7: in every state in which calculateROI has computed a result, the
\* creditCardPercentage and competitorRate it used lie in [0,100].
C7_PercentagesClamped ==
    outcome = "result" =>
        InRange(args.creditCardPercentage) /\ InRange(args.competitorRate)

\* C8: in the formula variant with creditCardPercentage = 100 the
\* ownProcessingCost is below one cent in magnitude, so ownTotalCost shows as
\* ownFixedCost and monthlySavings as competitorTotalCost - ownFixedCost.
C8_FullCreditNoProcessingCost ==
    (variant = "formula" /\ outcome = "result"
       /\ args.creditCardPercentage = Num(100)) =>
        /\ RLt(data.diProcessing, Rat(1, 100))
        /\ RGt(data.diProcessing, Rat(0 - 1, 100))
        /\ formatCurrency(data.diTotal) = formatCurrency(args.diCost)
        /\ text["diTotal"] = text["diSaas"]
        /\ formatCurrency(data.monthlySavings)
              = formatCurrency(RSub(data.competitorTotal, args.diCost))

C8_Witness ==
    /\ variant = "formula"
    /\ outcome = "result"
    /\ args.creditCardPercentage = Num(100)
    /\ args.monthlyVolume = Num(40000)
    /\ text["diProcessing"] = <<"$", "0", ".", "0", "0">>

\* C9: page load with URL parameters, blur, input and the expiry of the
\* debounce timeout leave every result untouched, and whatever a
\* calculation writes changes only in a click or Enter step, or in a tick
\* of a timer that such a step started.
C9_OnlyOnUserAction ==
    [][/\ (\/ \E url \in FormUrls : DOMContentLoaded(url)
           \/ \E id \in DOMAIN FormTypedText :
                 \E s \in FormTypedText[id] : Type(id, s)
           \/ \E id \in DOMAIN FormTypedText : Blur(id)
           \/ DebounceExpire)
          => UNCHANGED Results
       /\ (\/ <<outcome, args, data, sectionDisplay>>'
                 # <<outcome, args, data, sectionDisplay>>
           \/ Len(timers') > Len(timers)
           \/ scrollPending' > scrollPending)
          => CalculationStep
       /\ text' # text => CalculationStep \/ Tick]_vars

\* prefilled from the URL, a field typed in, a percentage clamped on blur,
\* the debounce timeout expired: and no calculation has run
C9_Witness ==
    /\ loaded
    /\ label["competitorName"] # Markup
    /\ value["monthlyVolume"] = T_abc
    /\ value["creditCardPercentage"] = T_100
    /\ ~calculateTimeout
    /\ outcome = "none"
    /\ timers = <<>>
    /\ \A id \in ResultIds : text[id] = Markup

\* C10: an interval timer still live has fired fewer than
\* ceil(duration / 16) times: every animation is cleared by then, whether
\* its end is positive, negative or 0.
C10_AnimationTerminates ==
    \A i \in 1..Len(timers) :
        timers[i].ticks < TicksNeeded(timers[i].duration)

\* an interval timer writing elementId is still on its way to end
Animating(elementId, end) ==
    \E i \in 1..Len(timers) :
        timers[i].elementId = elementId /\ timers[i].end = end

\* C11: once a result has been shown and no animation towards the savings
\* of the most recent accepted calculation is running any more, the
\* displayed monthlySavings and annualSavings are those of that calculation:
\* they have become its values and no timer left over from an earlier
\* calculation writes over them.
C11_LatestResultStays ==
    sectionDisplay = "grid" =>
        /\ ~Animating("monthlySavings", data.monthlySavings) =>
              text["monthlySavings"] = formatCurrency(data.monthlySavings)
        /\ ~Animating("annualSavings", data.annualSavings) =>
              text["annualSavings"] = formatCurrency(data.annualSavings)

=============================================================================
